---- MODULE Spec2Model ----
(***************************************************************************)
(* Model of the pricing service of app-backend/app.py: the two input       *)
(* validators, the two pricing formulas and the /calculate handler.        *)
(*                                                                         *)
(* The formulas run on Python floats (IEEE-754 binary64) and on Python     *)
(* ints (unbounded).  Both are modelled exactly: an unbounded natural is a *)
(* little-endian sequence of limbs in base 2^15, and a float is a record   *)
(* [k, neg, m, e] whose finite value is (-1)^neg * m * 2^e, every          *)
(* operation rounding to nearest, ties to even, as the hardware does.      *)
(***************************************************************************)
EXTENDS Integers, Sequences, FiniteSets, TLC

(***************************************************************************)
(* Unbounded naturals (Python int).                                        *)
(***************************************************************************)
Base == 32768

Limb(a, i) == IF i <= Len(a) THEN a[i] ELSE 0

\* a without its leading (most significant) zero limbs
BTrim(a) ==
    LET nz == {i \in 1..Len(a) : a[i] # 0}
    IN  IF nz = {} THEN <<>>
        ELSE SubSeq(a, 1, CHOOSE i \in nz : \A j \in nz : j <= i)

BFromSmall(n) ==
    IF n = 0 THEN <<>>
    ELSE IF n < Base THEN <<n>>
    ELSE IF n < Base * Base THEN <<n % Base, n \div Base>>
    ELSE <<n % Base, (n \div Base) % Base, n \div (Base * Base)>>

\* -1, 0 or 1 as a < b, a = b or a > b
BCmp(a, b) ==
    IF Len(a) > Len(b) THEN 1
    ELSE IF Len(a) < Len(b) THEN -1
    ELSE LET diff == {i \in 1..Len(a) : a[i] # b[i]}
             top  == CHOOSE i \in diff : \A j \in diff : j <= i
         IN  IF diff = {} THEN 0 ELSE IF a[top] > b[top] THEN 1 ELSE -1

\* a + b; the carry out of limb i is generated at some limb j <= i and
\* propagated by every limb between
BAdd(a, b) ==
    LET n == IF Len(a) > Len(b) THEN Len(a) ELSE Len(b)
        s == [i \in 1..(n + 1) |-> Limb(a, i) + Limb(b, i)]
        Carry(i) == \E j \in 1..i : /\ s[j] >= Base
                                    /\ \A k \in (j + 1)..i : s[k] = Base - 1
    IN  BTrim([i \in 1..(n + 1) |->
                 (s[i] + IF Carry(i - 1) THEN 1 ELSE 0) % Base])

\* a - b for a >= b; the borrow out of limb i likewise
BSub(a, b) ==
    LET d == [i \in 1..Len(a) |-> a[i] - Limb(b, i)]
        Borrow(i) == \E j \in 1..i : /\ d[j] < 0
                                     /\ \A k \in (j + 1)..i : d[k] = 0
    IN  BTrim([i \in 1..Len(a) |->
                 (d[i] - (IF Borrow(i - 1) THEN 1 ELSE 0) + Base) % Base])

\* a * k for 0 <= k < Base: the low halves of the limb products plus their
\* high halves one limb up
BMulSmall(a, k) ==
    BAdd([i \in 1..Len(a) |-> (a[i] * k) % Base],
         [i \in 1..(Len(a) + 1) |->
            IF i = 1 THEN 0 ELSE (a[i - 1] * k) \div Base])

BShlLimbs(a, n) == IF a = <<>> THEN a ELSE [i \in 1..n |-> 0] \o a

Min2(x, y) == IF x < y THEN x ELSE y

\* a * b, the partial products of b[i..] added to acc
RECURSIVE BMulAt(_, _, _, _)
BMulNext(a, b, i, sum) ==
    IF sum = <<>> THEN BMulAt(a, b, i + 1, <<>>) ELSE BMulAt(a, b, i + 1, sum)

BMulAt(a, b, i, acc) ==
    IF i > Len(b) THEN acc
    ELSE BMulNext(a, b, i, BAdd(acc, BShlLimbs(BMulSmall(a, b[i]), i - 1)))

BMul(a, b) == BMulAt(a, b, 1, <<>>)

Pow2Tab ==
    <<1, 2, 4, 8, 16, 32, 64, 128, 256, 512, 1024, 2048, 4096, 8192, 16384>>

Pow10Tab == <<1, 10, 100, 1000, 10000>>

\* 2^n for n < 15
Pow2Small(n) == Pow2Tab[n + 1]

\* a * 2^n
BShl(a, n) == BShlLimbs(BMulSmall(a, Pow2Small(n % 15)), n \div 15)

BPow2(n) == BShl(<<1>>, n)

\* the number of bits of a limb
SmallBits(n) == Cardinality({i \in 1..15 : Pow2Tab[i] <= n})

BBitLen(a) == IF a = <<>> THEN 0 ELSE 15 * (Len(a) - 1) + SmallBits(a[Len(a)])

BIsOdd(a) == a # <<>> /\ a[1] % 2 = 1

\* b * q <= r
BFits(b, r, q) == BCmp(BMulSmall(b, q), r) <= 0

\* the estimate of a quotient digit from the top limbs of r and b
BDigitEst(b, r) ==
    Min2((IF Len(r) > Len(b) THEN r[Len(b) + 1] * Base + r[Len(b)]
          ELSE r[Len(b)]) \div b[Len(b)],
         Base - 1)

\* the estimate is at most 2 too large when b's top limb is at least Base / 2
BDigitFrom(b, r, est) ==
    CASE BFits(b, r, est) -> est
      [] BFits(b, r, est - 1) -> est - 1
      [] OTHER -> est - 2

\* one quotient digit of r \div b, for r < b * Base
BDigit(b, r) == IF BCmp(r, b) < 0 THEN 0 ELSE BDigitFrom(b, r, BDigitEst(b, r))

\* schoolbook long division: the limbs a[1..i] are still to be brought down,
\* q holds the quotient digits found so far and r < b the running remainder
RECURSIVE BDivAt(_, _, _, _, _)
BDivNext(a, b, i, q, r1, d) ==
    IF d = 0 THEN BDivAt(a, b, i - 1, <<0>> \o q, r1)
    ELSE BDivAt(a, b, i - 1, <<d>> \o q, BSub(r1, BMulSmall(b, d)))

BDivStep(a, b, i, q, r1) == BDivNext(a, b, i, q, r1, BDigit(b, r1))

BDivAt(a, b, i, q, r) ==
    IF i = 0 THEN [q |-> q, r |-> r]
    ELSE BDivStep(a, b, i, q, BTrim(<<a[i]>> \o r))

BDivOut(res, sh) == [q |-> BTrim(res.q), r |-> res.r, sh |-> sh]

\* a and b already scaled by 2^sh
BDivNorm(a, b, sh) ==
    IF Len(a) < Len(b) THEN [q |-> <<>>, r |-> a, sh |-> sh]
    ELSE BDivOut(BDivAt(a, b, Len(a) - Len(b) + 1, <<>>,
                        BTrim(SubSeq(a, Len(a) - Len(b) + 2, Len(a)))), sh)

BDivBy(a, b, sh) == BDivNorm(BShl(a, sh), BShl(b, sh), sh)

\* quotient and remainder of a by b, b # 0; both are scaled by 2^sh first so
\* that b's top limb is at least Base / 2, and r is the scaled remainder
BDivMod(a, b) == BDivBy(a, b, 15 - SmallBits(b[Len(b)]))

BRoundBy(q, c) ==
    IF c > 0 \/ (c = 0 /\ BIsOdd(q)) THEN BAdd(q, <<1>>) ELSE q

\* the quotient dm.q of a division by den, rounded to nearest, ties to even
BRoundQuot(dm, den) ==
    BRoundBy(dm.q, BCmp(BShl(dm.r, 1), BShl(den, dm.sh)))

\* num / den rounded to the nearest natural, ties to even
BDivRound(num, den) == BRoundQuot(BDivMod(num, den), den)

(***************************************************************************)
(* Python float: IEEE-754 binary64, round to nearest, ties to even.        *)
(* A finite value is m * 2^e with m < 2^53; it is normal (m >= 2^52),      *)
(* subnormal (e = MinExp) or zero (m = <<>>, e = 0).  The sign of a zero   *)
(* is not kept.                                                            *)
(***************************************************************************)
Precision == 53
MinExp == -1074
MaxExp == 1024

FZero == [k |-> "fin", neg |-> FALSE, m |-> <<>>, e |-> 0]
FInf(neg) == [k |-> "inf", neg |-> neg, m |-> <<>>, e |-> 0]
FNaN == [k |-> "nan", neg |-> FALSE, m |-> <<>>, e |-> 0]

FFinite(neg, m, e) ==
    IF BBitLen(m) + e > MaxExp THEN FInf(neg)
    ELSE [k |-> "fin", neg |-> neg, m |-> m, e |-> e]

\* the float q * 2^e for q of at most Precision bits, or one more after a
\* rounding that carried
FPack(neg, q, e) ==
    CASE q = <<>> -> FZero
      [] BBitLen(q) > Precision -> FFinite(neg, BPow2(Precision - 1), e + 1)
      [] OTHER -> FFinite(neg, q, e)

\* n / d * 2^e rounded at the bit of weight 2^(e - s)
FScaled(neg, n, d, e, s) ==
    FPack(neg,
          BDivRound(IF s >= 0 THEN BShl(n, s) ELSE n,
                    IF s >= 0 THEN d ELSE BShl(d, 0 - s)),
          e - s)

\* the scaling that gives n * 2^s \div d exactly Precision bits, s0 being
\* right or one too large
FShiftFor(n, d, s0) ==
    IF (IF s0 >= 0 THEN BCmp(BShl(n, s0), BShl(d, Precision))
        ELSE BCmp(n, BShl(d, Precision - s0))) >= 0
    THEN s0 - 1 ELSE s0

\* the float nearest to n / d * 2^e (n, d naturals, d # 0), with sign neg;
\* a subnormal result has fewer bits
FRound(neg, n, d, e) ==
    IF n = <<>> THEN FZero
    ELSE FScaled(neg, n, d, e,
                 Min2(FShiftFor(n, d, Precision + BBitLen(d) - BBitLen(n)),
                      e - MinExp))

\* int -> float
FFromBig(neg, n) == FRound(neg, n, <<1>>, 0)
FFromSmall(n) == FFromBig(FALSE, BFromSmall(n))

FIsZero(a) == a.k = "fin" /\ a.m = <<>>

FNeg(a) == IF a.k = "nan" \/ FIsZero(a) THEN a ELSE [a EXCEPT !.neg = ~a.neg]

\* comparison of the magnitudes of two finite floats: -1, 0 or 1
FCmpMag(a, b) ==
    IF a.m = <<>> THEN (IF b.m = <<>> THEN 0 ELSE -1)
    ELSE IF b.m = <<>> THEN 1
    ELSE LET ta == BBitLen(a.m) + a.e
             tb == BBitLen(b.m) + b.e
             e  == IF a.e < b.e THEN a.e ELSE b.e
         IN  IF ta > tb THEN 1
             ELSE IF ta < tb THEN -1
             ELSE BCmp(BShl(a.m, a.e - e), BShl(b.m, b.e - e))

\* a < b, false whenever either is a NaN
FLt(a, b) ==
    IF a.k = "nan" \/ b.k = "nan" THEN FALSE
    ELSE IF a.k = "inf" THEN a.neg /\ ~(b.k = "inf" /\ b.neg)
    ELSE IF b.k = "inf" THEN ~b.neg
    ELSE IF a.neg /\ ~b.neg THEN TRUE
    ELSE IF ~a.neg /\ b.neg THEN FALSE
    ELSE IF a.neg THEN FCmpMag(a, b) > 0
    ELSE FCmpMag(a, b) < 0

FGt(a, b) == FLt(b, a)

FMul(a, b) ==
    IF a.k = "nan" \/ b.k = "nan" THEN FNaN
    ELSE IF a.k = "inf" \/ b.k = "inf"
    THEN IF FIsZero(a) \/ FIsZero(b) THEN FNaN ELSE FInf(a.neg # b.neg)
    ELSE FRound(a.neg # b.neg, BMul(a.m, b.m), <<1>>, a.e + b.e)

\* a / b for b # 0 (Python raises ZeroDivisionError before dividing by 0)
FDiv(a, b) ==
    IF a.k = "nan" \/ b.k = "nan" THEN FNaN
    ELSE IF a.k = "inf"
    THEN IF b.k = "inf" THEN FNaN ELSE FInf(a.neg # b.neg)
    ELSE IF b.k = "inf" THEN FZero
    ELSE FRound(a.neg # b.neg, a.m, b.m, a.e - b.e)

\* a nonzero term too small to be seen except as "more than nothing" by a
\* sum whose other term has exponent e: it rounds the same way as any other
\* value below a quarter of the last place
FSticky(a, e) == [a EXCEPT !.m = <<1>>, !.e = e - 3]

FAddAligned(na, nb, ma, mb, e, c) ==
    FRound(IF na = nb \/ c >= 0 THEN na ELSE nb,
           IF na = nb THEN BAdd(ma, mb)
           ELSE IF c >= 0 THEN BSub(ma, mb) ELSE BSub(mb, ma),
           <<1>>, e)

FAddAt(a, b, ma, mb, e) == FAddAligned(a.neg, b.neg, ma, mb, e, BCmp(ma, mb))

FAddFinite(a, b) ==
    FAddAt(a, b, BShl(a.m, a.e - Min2(a.e, b.e)),
           BShl(b.m, b.e - Min2(a.e, b.e)), Min2(a.e, b.e))

FAdd(a, b) ==
    CASE a.k = "nan" \/ b.k = "nan" -> FNaN
      [] a.k = "inf" -> IF b.k = "inf" /\ a.neg # b.neg THEN FNaN ELSE a
      [] b.k = "inf" -> b
      [] FIsZero(a) -> b
      [] FIsZero(b) -> a
      [] a.e - b.e > 2 * Precision -> FAddFinite(a, FSticky(b, a.e))
      [] b.e - a.e > 2 * Precision -> FAddFinite(FSticky(a, b.e), b)
      [] OTHER -> FAddFinite(a, b)

FSub(a, b) == FAdd(a, FNeg(b))

\* min(a, b) of Python: b if b < a else a
py_min(a, b) == IF FLt(b, a) THEN b ELSE a

RECURSIVE BPow10(_)
BPow10(n) ==
    IF n = 0 THEN <<1>>
    ELSE IF n >= 4 THEN BMulSmall(BPow10(n - 4), 10000)
    ELSE BMulSmall(BPow10(n - 1), 10)

Signed(neg, n) == [neg |-> neg /\ n # <<>>, n |-> n]

BCeilQuot(neg, dm) ==
    IF neg \/ dm.r = <<>> THEN dm.q ELSE BAdd(dm.q, <<1>>)

\* math.floor in the place of math.ceil
py_floor(a) ==
    IF a.e >= 0 THEN Signed(a.neg, BShl(a.m, a.e))
    ELSE Signed(a.neg, BDivMod(a.m, BPow2(0 - a.e)).q)

\* math.ceil of a finite float: the int [neg, n]
py_ceil(a) ==
    IF a.e >= 0 THEN Signed(a.neg, BShl(a.m, a.e))
    ELSE Signed(a.neg, BCeilQuot(a.neg, BDivMod(a.m, BPow2(0 - a.e))))

py_round_by(a, den, pow) ==
    FRound(a.neg, BDivRound(BMul(a.m, pow), den), pow, 0)

\* round(a, nd) of a float: the float nearest to the decimal with nd
\* fractional digits that is nearest to a, ties to the even digit
py_round(a, nd) ==
    IF a.k # "fin" \/ a.e >= 0 THEN a
    ELSE py_round_by(a, BPow2(0 - a.e), BPow10(nd))

(***************************************************************************)
(* JSON values of a request payload.  A number and a string carry their    *)
(* text, one character per element; a list stands for any unhashable       *)
(* value (list or object).                                                  *)
(***************************************************************************)
JNum(txt) == [t |-> "num", txt |-> txt]
JStr(txt) == [t |-> "str", txt |-> txt]
JBool(b) == [t |-> "bool", txt |-> IF b THEN <<"1">> ELSE <<"0">>]
JNull == [t |-> "null", txt |-> <<>>]
JList == [t |-> "list", txt |-> <<>>]

DigitChars == {"0", "1", "2", "3", "4", "5", "6", "7", "8", "9"}

DigitVal(c) ==
    CASE c = "0" -> 0 [] c = "1" -> 1 [] c = "2" -> 2 [] c = "3" -> 3
      [] c = "4" -> 4 [] c = "5" -> 5 [] c = "6" -> 6 [] c = "7" -> 7
      [] c = "8" -> 8 [] c = "9" -> 9

DigitAt(s, i) == IF i <= Len(s) THEN DigitVal(s[i]) ELSE 0

\* the natural written by the digit characters s, read four digits at a
\* time from the i-th on, acc being the value of s[1..i-1]
RECURSIVE BFromDigitsAt(_, _, _)
BFromDigitsNext(s, i, next) ==
    IF next = <<>> THEN BFromDigitsAt(s, i, <<>>) ELSE BFromDigitsAt(s, i, next)

BFromDigitsBy(s, i, acc, k) ==
    BFromDigitsNext(s, i + k,
        BAdd(BMulSmall(acc, Pow10Tab[k + 1]),
             BFromSmall((1000 * DigitAt(s, i) + 100 * DigitAt(s, i + 1)
                         + 10 * DigitAt(s, i + 2) + DigitAt(s, i + 3))
                        \div Pow10Tab[5 - k])))

BFromDigitsAt(s, i, acc) ==
    IF i > Len(s) THEN acc
    ELSE BFromDigitsBy(s, i, acc, Min2(4, Len(s) - i + 1))

BFromDigits(s) == BFromDigitsAt(s, 1, <<>>)

AllDigits(s) == \A i \in 1..Len(s) : s[i] \in DigitChars

\* the largest number of digits of an int that float() still converts; a
\* longer one raises OverflowError (so does one of exactly this length from
\* 2^1024 - 2^970 on, which no input here has)
MaxFloatDigits == 309

\* a decimal text [sign] digits [. digits], as float() and the JSON decoder
\* read it: sign, integer digits, fraction digits
ParseDecimal(s) ==
    LET signed == s # <<>> /\ s[1] \in {"-", "+"}
        body   == IF signed THEN Tail(s) ELSE s
        dots   == {i \in 1..Len(body) : body[i] = "."}
        dot    == IF dots = {} THEN Len(body) + 1 ELSE CHOOSE i \in dots : TRUE
        ip     == SubSeq(body, 1, dot - 1)
        fp     == SubSeq(body, dot + 1, Len(body))
    IN  [ok  |-> /\ Cardinality(dots) <= 1
                 /\ AllDigits(ip) /\ AllDigits(fp)
                 /\ Len(ip) + Len(fp) >= 1,
         neg |-> signed /\ s[1] = "-",
         isint |-> dots = {},
         ip  |-> ip,
         fp  |-> fp]

DecimalValue(p) ==
    FRound(p.neg, BFromDigits(p.ip \o p.fp),
           BPow10(Len(p.fp)), 0)

\* a float literal of the source text
Lit(txt) == DecimalValue(ParseDecimal(txt))

Unsigned(txt) ==
    IF txt # <<>> /\ txt[1] \in {"-", "+"} THEN Tail(txt) ELSE txt

\* an int converts unless it is too large, a string if it is a decimal
py_float_parsed(p, isnum) ==
    CASE isnum /\ p.isint /\ Len(p.ip) > MaxFloatDigits ->
           [st |-> "OverflowError", f |-> FNaN]
      [] isnum \/ p.ok -> [st |-> "ok", f |-> DecimalValue(p)]
      [] OTHER -> [st |-> "ValueError", f |-> FNaN]

py_float_str(txt, unsigned) ==
    CASE unsigned = <<"i", "n", "f">> -> [st |-> "ok", f |-> FInf(txt[1] = "-")]
      [] unsigned = <<"n", "a", "n">> -> [st |-> "ok", f |-> FNaN]
      [] OTHER -> py_float_parsed(ParseDecimal(txt), FALSE)

\* float(value): [st, f] with st "ok" or the exception raised
py_float(value) ==
    CASE value.t = "bool" ->
           [st |-> "ok", f |-> IF value.txt = <<"1">> THEN FFromSmall(1) ELSE FZero]
      [] value.t = "num" -> py_float_parsed(ParseDecimal(value.txt), TRUE)
      [] value.t = "str" -> py_float_str(value.txt, Unsigned(value.txt))
      [] OTHER -> [st |-> "TypeError", f |-> FNaN]

\* dict.get(key, default)
Get(d, key, default) == IF key \in DOMAIN d THEN d[key] ELSE default

(***************************************************************************)
(* Input validation.                                                       *)
(***************************************************************************)
Passed == [st |-> "ok", msg |-> "", field |-> ""]
Raise(st, msg, field) == [st |-> st, msg |-> msg, field |-> field]

\* the outcome of float(value) and of the sign test
check_float(field, fv) ==
    CASE fv.st = "OverflowError" ->
           Raise("OverflowError", "int too large to convert to float", "")
      [] fv.st # "ok" -> Raise("ValueError", "Invalid numeric value for", field)
      [] FLt(fv.f, FZero) ->
           Raise("ValueError", "Invalid numeric value for", field)
      [] OTHER -> Passed

check_value(field, value) ==
    IF value.t \notin {"num", "bool", "str"}
    THEN Raise("ValueError", "Invalid type for", field)
    ELSE check_float(field, py_float(value))

\* one iteration of the loop over required_fields
validate_field(data, field) ==
    IF field \notin DOMAIN data
    THEN Raise("ValueError", "Missing required field", field)
    ELSE check_value(field, data[field])

\* the loop stops at the first iteration that raises
validate_fields(data, required_fields) ==
    LET raised == {i \in 1..Len(required_fields) :
                     validate_field(data, required_fields[i]) # Passed}
    IN  IF raised = {} THEN Passed
        ELSE validate_field(data, required_fields[
                 CHOOSE i \in raised : \A j \in raised : i <= j])

supplement_required_fields ==
    <<"purchasePrice", "fxRate", "weightGrams", "count", "dailyDose">>

device_required_fields ==
    <<"purchasePrice", "fxRate", "lengthCm", "widthCm", "heightCm", "weightKg">>

validate_supplement_inputs(data) ==
    validate_fields(data, supplement_required_fields)

validate_device_inputs(data) ==
    validate_fields(data, device_required_fields)

(***************************************************************************)
(* Multipliers.                                                            *)
(***************************************************************************)
MULTIPLIERS ==
    [
      maleSupport |-> (<<"Y", "e", "s">> :> <<"1", ".", "2", "5">>
        @@ <<"N", "o">> :> <<"1">>),
      productShape |-> (<<"C", "a", "p", "s", "u", "l", "e", "s", "/", "T", "a", "b", "l", "e", "t", "s">> :> <<"1">>
        @@ <<"S", "o", "f", "t", "g", "e", "l", "s", "/", "C", "h", "e", "w", "s">> :> <<"1">>
        @@ <<"P", "o", "w", "d", "e", "r", "/", "C", "r", "e", "a", "m", "y">> :> <<"1">>
        @@ <<"G", "u", "m", "m", "i", "e", "s">> :> <<"1", ".", "1">>
        @@ <<"L", "i", "q", "u", "i", "d">> :> <<"1", ".", "0", "5">>
        @@ <<"I", "n", "j", "e", "c", "t", "i", "o", "n">> :> <<"1", ".", "2">>),
      bottleSize |-> (<<"S", "m", "a", "l", "l">> :> <<"0", ".", "9">>
        @@ <<"N", "o", "r", "m", "a", "l">> :> <<"1">>
        @@ <<"B", "i", "g">> :> <<"1", ".", "1">>
        @@ <<"M", "a", "s", "s", "i", "v", "e">> :> <<"1", ".", "2">>),
      packingMaterial |-> (<<"P", "l", "a", "s", "t", "i", "c">> :> <<"1">>
        @@ <<"G", "l", "a", "s", "s">> :> <<"1", ".", "1", "2">>
        @@ <<"P", "a", "p", "e", "r">> :> <<"1", ".", "0", "6">>),
      importOrigin |-> (<<"U", "S">> :> <<"1">>
        @@ <<"U", "K">> :> <<"1", ".", "2", "5">>
        @@ <<"E", "U">> :> <<"1", ".", "1">>)
    ]

\* a lookup whose default is 0
MultTextOrZero(t, key) ==
    IF key.t = "str" /\ key.txt \in DOMAIN t THEN t[key.txt] ELSE <<"0">>

\* the literal MULTIPLIERS[table].get(key, 1) finds
MultText(t, key) ==
    IF key.t = "str" /\ key.txt \in DOMAIN t THEN t[key.txt] ELSE <<"1">>

\* MULTIPLIERS[table].get(key, 1); an unhashable key raises TypeError
MultGet(table, key) ==
    IF key.t = "list" THEN [st |-> "TypeError", f |-> FNaN]
    ELSE [st |-> "ok", f |-> Lit(MultText(MULTIPLIERS[table], key))]

(***************************************************************************)
(* The pricing formulas.  A frame is the function's local variables at the *)
(* point where it returns or raises; st is "ok" or the exception raised    *)
(* before the return statement.                                            *)
(***************************************************************************)
FirstFailure(conv) ==
    LET failed == {i \in 1..Len(conv) : conv[i].st # "ok"}
    IN  IF failed = {} THEN "ok"
        ELSE conv[CHOOSE i \in failed : \A j \in failed : i <= j].st

\* math.ceil(x) raises ValueError on a NaN and OverflowError on an infinity
CeilFailure(x) ==
    CASE x.k = "nan" -> "ValueError"
      [] x.k = "inf" -> "OverflowError"
      [] OTHER -> "ok"

\* the ceiling alone, without the step of 50
CeilOnly(quotient) == Signed(quotient.neg, py_ceil(quotient).n)

\* math.ceil(quotient) * 50
CeilTimes50(quotient) == Signed(quotient.neg, BMulSmall(py_ceil(quotient).n, 50))

\* the last statement before the return: final_price, or the exception
\* raised by then
Priced(v, conv, quotient) ==
    v @@ [st |-> IF conv # "ok" THEN conv ELSE CeilFailure(quotient),
          final_price |-> CeilTimes50(quotient)]

\* lines 180-191
supplement_args(inputs) ==
    [purchasePrice |-> py_float(Get(inputs, "purchasePrice", JNum(<<"0">>))),
     fxRate        |-> py_float(Get(inputs, "fxRate", JNum(<<"5", "0">>))),
     weightGrams   |-> py_float(Get(inputs, "weightGrams", JNum(<<"0">>))),
     count         |-> py_float(Get(inputs, "count", JNum(<<"0">>))),
     dailyDose     |-> py_float(Get(inputs, "dailyDose", JNum(<<"1">>))),
     shapeMult  |-> MultGet("productShape", Get(inputs, "productShape", JNull)),
     packMult   |-> MultGet("packingMaterial", Get(inputs, "packingMaterial", JNull)),
     sizeMult   |-> MultGet("bottleSize", Get(inputs, "bottleSize", JNull)),
     maleMult   |-> MultGet("maleSupport", Get(inputs, "isMaleSupport", JNull)),
     originMult |-> MultGet("importOrigin", Get(inputs, "importFrom", JNull))]

\* a dose of zero read as a dose of one
days_supply_undosed(count, dailyDose) ==
    IF FGt(dailyDose, FZero) THEN FDiv(count, dailyDose) ELSE count

\* count / dailyDose if dailyDose > 0 else 30
days_supply_of(count, dailyDose) ==
    IF FGt(dailyDose, FZero) THEN FDiv(count, dailyDose) ELSE FFromSmall(30)

\* lines 194, 201, 210 and the base cost of line 237
supplement_factors(a) ==
    [xfactor |-> FMul(FMul(FMul(FMul(a.shapeMult.f, a.packMult.f), a.sizeMult.f),
                           a.maleMult.f), a.originMult.f),
     weight_cost |-> FDiv(FMul(FMul(a.weightGrams.f, FFromSmall(32)), a.fxRate.f),
                          FFromSmall(1000)),
     days_supply |-> days_supply_of(a.count.f, a.dailyDose.f),
     base |-> FMul(a.purchasePrice.f, a.fxRate.f)]

\* lines 197 and 211
supplement_product(a, v) ==
    v @@ [base_product_egp |-> FMul(FMul(a.purchasePrice.f, v.xfactor), a.fxRate.f),
          months_supply |-> FDiv(v.days_supply, FFromSmall(30))]

\* lines 205 and 214-220
supplement_adjusted(v) ==
    v @@ [adjusted_cost |->
              FAdd(FFromSmall(380),
                   FMul(Lit(<<"1", ".", "4">>),
                        FAdd(v.base_product_egp, v.weight_cost))),
          dose_factor |->
              py_min(FFromSmall(3),
                     IF FGt(v.months_supply, FZero)
                     THEN FDiv(FFromSmall(3), v.months_supply)
                     ELSE FFromSmall(3))]

\* line 222
supplement_dosage(v) ==
    v @@ [dosage_adj |-> FMul(FFromSmall(50), FSub(FFromSmall(3), v.dose_factor))]

\* lines 225 and 230
supplement_total(v) ==
    v @@ [total_cost |-> FAdd(v.adjusted_cost, v.dosage_adj),
          margin_percent |-> Lit(<<"0", ".", "3", "7">>)]

\* lines 231 and 275
marked_up(v) ==
    v @@ [final_price_raw |->
              FMul(v.total_cost, FAdd(FFromSmall(1), v.margin_percent))]

supplement_raw(a) ==
    marked_up(supplement_total(supplement_dosage(supplement_adjusted(
        supplement_product(a, supplement_factors(a))))))

supplement_priced(a, v) ==
    Priced(v,
           FirstFailure(<<a.purchasePrice, a.fxRate, a.weightGrams, a.count,
                          a.dailyDose, a.shapeMult, a.packMult, a.sizeMult,
                          a.maleMult, a.originMult>>),
           FDiv(v.final_price_raw, FFromSmall(50)))

supplement_locals(a) == supplement_priced(a, supplement_raw(a))

\* the locals of calculate_supplement_price at its return statement
supplement_frame(inputs) == supplement_locals(supplement_args(inputs))

\* lines 245-254
device_args(inputs) ==
    [purchasePrice |-> py_float(Get(inputs, "purchasePrice", JNum(<<"0">>))),
     fxRate |-> py_float(Get(inputs, "fxRate", JNum(<<"5", "0">>))),
     l      |-> py_float(Get(inputs, "lengthCm", JNum(<<"0">>))),
     w      |-> py_float(Get(inputs, "widthCm", JNum(<<"0">>))),
     h      |-> py_float(Get(inputs, "heightCm", JNum(<<"0">>))),
     weight |-> py_float(Get(inputs, "weightKg", JNum(<<"0">>))),
     maleMult   |-> MultGet("maleSupport", Get(inputs, "isMaleSupport", JNull)),
     originMult |-> MultGet("importOrigin", Get(inputs, "importFrom", JNull))]

\* lines 257 and 263
device_base(a) ==
    [base |-> FMul(a.purchasePrice.f, a.fxRate.f),
     vol  |-> FMul(FMul(a.l.f, a.w.f), a.h.f)]

\* the dimension factor without the weight term
device_dim_unweighted(a, v) ==
    v @@ [dim_factor |-> FAdd(FFromSmall(1), FDiv(v.vol, FFromSmall(4000)))]

\* line 266
device_dim(a, v) ==
    v @@ [dim_factor |->
              FAdd(FAdd(FFromSmall(1), FDiv(v.vol, FFromSmall(4000))),
                   FMul(a.weight.f, FFromSmall(2)))]

\* lines 269 and 274
device_total(a, v) ==
    v @@ [total_cost |->
              FMul(FMul(FMul(v.base, v.dim_factor), a.maleMult.f), a.originMult.f),
          margin_percent |-> Lit(<<"0", ".", "1", "5">>)]

device_raw(a) == marked_up(device_total(a, device_dim(a, device_base(a))))

device_priced(a, v) ==
    Priced(v,
           FirstFailure(<<a.purchasePrice, a.fxRate, a.l, a.w, a.h, a.weight,
                          a.maleMult, a.originMult>>),
           FDiv(v.final_price_raw, FFromSmall(50)))

device_locals(a) == device_priced(a, device_raw(a))

\* the locals of calculate_device_price at its return statement
device_frame(inputs) == device_locals(device_args(inputs))

NoBreakdown(st) ==
    [st |-> st, baseCost |-> FZero, totalCost |-> FZero,
     finalPrice |-> [neg |-> FALSE, n |-> <<>>],
     profit |-> FZero, margin |-> FZero]

\* the dict of the return statement, gain being final_price - total_cost
Emitted(v, final_price, gain) ==
    [st |-> "ok",
     baseCost |-> py_round(v.base, 2),
     totalCost |-> py_round(v.total_cost, 0),
     finalPrice |-> v.final_price,
     profit |-> py_round(gain, 0),
     margin |-> py_round(FMul(FDiv(gain, final_price), FFromSmall(100)), 1)]

Returned(v, final_price) == Emitted(v, final_price, FSub(final_price, v.total_cost))

\* the return statement of both formulas; the division by final_price
\* raises ZeroDivisionError when final_price is 0
Breakdown(v) ==
    CASE v.st # "ok" -> NoBreakdown(v.st)
      [] v.final_price.n = <<>> -> NoBreakdown("ZeroDivisionError")
      [] OTHER -> Returned(v, FFromBig(v.final_price.neg, v.final_price.n))

calculate_supplement_price(inputs) == Breakdown(supplement_frame(inputs))

calculate_device_price(inputs) == Breakdown(device_frame(inputs))

(***************************************************************************)
(* The inputs the functions are applied to.  A number written in a payload *)
(* is JSON text; Chars gives the text of a small natural.                  *)
(***************************************************************************)
MaxMonths == 3
MaxDose == 2
MaxSide == 1

DigitText == <<"0", "1", "2", "3", "4", "5", "6", "7", "8", "9">>

\* the decimal text of n < 10000
Chars(n) ==
    LET all == [i \in 1..4 |-> DigitText[((n \div Pow10Tab[5 - i]) % 10) + 1]]
        lead == {i \in 1..3 : n >= Pow10Tab[5 - i]}
    IN  SubSeq(all, IF lead = {} THEN 4 ELSE CHOOSE i \in lead : \A j \in lead : i <= j, 4)

Str(name) ==
    CASE name = "Capsules/Tablets" ->
           JStr(<<"C", "a", "p", "s", "u", "l", "e", "s", "/", "T", "a", "b", "l", "e", "t", "s">>)
      [] name = "Gummies" -> JStr(<<"G", "u", "m", "m", "i", "e", "s">>)
      [] name = "Plastic" -> JStr(<<"P", "l", "a", "s", "t", "i", "c">>)
      [] name = "Glass" -> JStr(<<"G", "l", "a", "s", "s">>)
      [] name = "Normal" -> JStr(<<"N", "o", "r", "m", "a", "l">>)
      [] name = "Small" -> JStr(<<"S", "m", "a", "l", "l">>)
      [] name = "No" -> JStr(<<"N", "o">>)
      [] name = "Yes" -> JStr(<<"Y", "e", "s">>)
      [] name = "US" -> JStr(<<"U", "S">>)
      [] name = "UK" -> JStr(<<"U", "K">>)
      [] name = "EU" -> JStr(<<"E", "U">>)
      [] name = "Unknown" -> JStr(<<"U", "n", "k", "n", "o", "w", "n">>)
      [] name = "yes" -> JStr(<<"y", "e", "s">>)
      [] name = "" -> JStr(<<>>)

Zero == JNum(<<"0">>)

supplement_scenario ==
    [purchasePrice |-> JNum(<<"1", "0">>), fxRate |-> JNum(<<"5", "0">>),
     weightGrams |-> JNum(<<"3", "0">>), count |-> JNum(<<"6", "0">>),
     dailyDose |-> JNum(<<"2">>)]

device_scenario ==
    [purchasePrice |-> JNum(<<"1", "0", "0">>), fxRate |-> JNum(<<"5", "0">>),
     lengthCm |-> JNum(<<"2", "0">>), widthCm |-> JNum(<<"2", "0">>),
     heightCm |-> JNum(<<"2", "0">>), weightKg |-> JNum(<<"5">>)]

neutral_supplement ==
    [productShape |-> Str("Capsules/Tablets"), packingMaterial |-> Str("Plastic"),
     bottleSize |-> Str("Normal"), isMaleSupport |-> Str("No"),
     importFrom |-> Str("US")]

neutral_device == [isMaleSupport |-> Str("No"), importFrom |-> Str("US")]

supplement_categorical ==
    {"productShape", "packingMaterial", "bottleSize", "isMaleSupport", "importFrom"}

device_categorical == {"isMaleSupport", "importFrom"}

\* the grid of well-formed supplement payloads
SupplementGrid ==
    { [purchasePrice |-> p, fxRate |-> JNum(<<"5", "0">>), weightGrams |-> w,
       count |-> JNum(Chars(30 * c)), dailyDose |-> JNum(Chars(d))] @@ o :
        p \in {Zero, JNum(<<"1", "0">>)},
        w \in {Zero, JNum(<<"3", "0">>)},
        c \in 0..MaxMonths,
        d \in 0..MaxDose,
        o \in {<<>>, neutral_supplement,
               [productShape |-> Str("Gummies"), packingMaterial |-> Str("Glass")],
               [bottleSize |-> Str("Small"), isMaleSupport |-> Str("Yes"),
                importFrom |-> Str("UK")]} }

\* the grid of well-formed device payloads
DeviceGrid ==
    { [purchasePrice |-> p, fxRate |-> x, lengthCm |-> JNum(Chars(20 * i)),
       widthCm |-> JNum(Chars(20 * i)), heightCm |-> JNum(Chars(20 * i)),
       weightKg |-> k] @@ o :
        p \in {Zero, JStr(<<"0", ".", "5">>), JNum(<<"1", "0", "0">>),
               JNum(<<"1", "0", "0", "0">>),
               JNum(<<"1", ".", "4", "9", "9", "9", "9", "9", "9", "9", "9",
                      "9", "9", "9", "9", "9", "9", "8">>)},
        x \in {JNum(<<"1">>), JNum(<<"5", "0">>)},
        i \in 0..MaxSide,
        k \in {Zero, JNum(<<"5">>), JStr(<<"2", ".", "5">>)},
        o \in {<<>>, neutral_device,
               [isMaleSupport |-> Str("Yes"), importFrom |-> Str("EU")]} }

\* values a categorical field can carry besides the listed ones
OddValues == {Str("Unknown"), Str("yes"), Str(""), JNull, JNum(<<"1">>), JList}

SupplementOdd ==
    { (f :> v) @@ b @@ neutral_supplement :
        f \in supplement_categorical, v \in OddValues,
        b \in {supplement_scenario,
               [purchasePrice |-> JStr(<<"1", "2", ".", "5">>),
                fxRate |-> JStr(<<"4", "8", ".", "5">>),
                weightGrams |-> JNum(<<"2", "5", "0">>),
                count |-> JStr(<<"i", "n", "f">>),
                dailyDose |-> JNum(<<"1">>)]} }

DeviceOdd ==
    { (f :> v) @@ device_scenario @@ neutral_device :
        f \in device_categorical, v \in OddValues }

\* an int of one digit more than float() converts
HugeInt == JNum(<<"1">> \o [i \in 1..MaxFloatDigits |-> "0"])

BadValues ==
    {JNum(<<"-", "1">>), JStr(<<"-", "2", ".", "5">>), JStr(<<"a", "b", "c">>),
     JStr(<<>>), JStr(<<"n", "a", "n">>), JNull, JList, HugeInt}

Without(d, f) == [g \in DOMAIN d \ {f} |-> d[g]]

\* base with one required field absent or bad, or with one absent and
\* another negative
Faulty(base, fields) ==
    {Without(base, f) : f \in fields}
    \cup {[base EXCEPT ![f] = v] : f \in fields, v \in BadValues}
    \cup {[Without(base, q[1]) EXCEPT ![q[2]] = JNum(<<"-", "1">>)] :
            q \in {r \in fields \X fields : r[1] # r[2]}}

Range(seq) == {seq[i] : i \in 1..Len(seq)}

SupplementInputs ==
    SupplementGrid \cup SupplementOdd
    \cup Faulty(supplement_scenario, Range(supplement_required_fields))

DeviceInputs ==
    DeviceGrid \cup DeviceOdd
    \cup Faulty(device_scenario, Range(device_required_fields))

(***************************************************************************)
(* State.  category and data are the arguments of the call in progress,    *)
(* given is what the caller handed in, validated what the validator did,   *)
(* frame the formula's locals and results what it returned.  calculations  *)
(* is the table of Calculation rows, session the rows added and not yet    *)
(* committed, response the last HTTP response and calls the functions the  *)
(* last request ran, in order; before and pending are the table and the    *)
(* session as the last request found them.                                 *)
(***************************************************************************)
VARIABLES pc, category, data, given, validated, frame, results,
          calculations, session, response, calls, before, pending

vars == <<pc, category, data, given, validated, frame, results,
          calculations, session, response, calls, before, pending>>

NoFrame == [st |-> "none"]
NoResponse == [status |-> 0, body |-> NoBreakdown("none")]

server == <<calculations, session, response, calls, before, pending>>
locals == <<category, data, given, validated, frame, results>>

Init ==
    /\ pc = "called"
    /\ \/ category = "supplement" /\ data \in SupplementInputs
       \/ category = "device" /\ data \in DeviceInputs
    /\ given = data
    /\ validated = Passed
    /\ frame = NoFrame
    /\ results = NoBreakdown("none")
    /\ calculations = <<>>
    /\ session = <<>>
    /\ response = NoResponse
    /\ calls = <<>>
    /\ before = <<>>
    /\ pending = <<>>

ValidateSupplement ==
    /\ pc = "called"
    /\ category = "supplement"
    /\ validated' = validate_supplement_inputs(data)
    /\ pc' = "validated"
    /\ UNCHANGED <<category, data, given, frame, results, server>>

ValidateDevice ==
    /\ pc = "called"
    /\ category = "device"
    /\ validated' = validate_device_inputs(data)
    /\ pc' = "validated"
    /\ UNCHANGED <<category, data, given, frame, results, server>>

CalculateSupplement ==
    /\ pc = "validated"
    /\ category = "supplement"
    /\ validated = Passed
    /\ frame' = supplement_frame(data)
    /\ results' = Breakdown(frame')
    /\ pc' = "returned"
    /\ UNCHANGED <<category, data, given, validated, server>>

CalculateDevice ==
    /\ pc = "validated"
    /\ category = "device"
    /\ validated = Passed
    /\ frame' = device_frame(data)
    /\ results' = Breakdown(frame')
    /\ pc' = "returned"
    /\ UNCHANGED <<category, data, given, validated, server>>

Next ==
    \/ ValidateSupplement
    \/ ValidateDevice
    \/ CalculateSupplement
    \/ CalculateDevice

Spec == Init /\ [][Next]_vars

(***************************************************************************)
(* The /calculate handler.  A request body is null, a list or an object;   *)
(* the object's fields are the mapping the validators and formulas read.   *)
(***************************************************************************)
MaxRecords == 3

JObj(fields) == [t |-> "obj", fields |-> fields]

Tag(name) ==
    CASE name = "supplement" ->
           JStr(<<"s", "u", "p", "p", "l", "e", "m", "e", "n", "t">>)
      [] name = "device" -> JStr(<<"d", "e", "v", "i", "c", "e">>)
      [] name = "Device" -> JStr(<<"D", "e", "v", "i", "c", "e">>)
      [] name = "gadget" -> JStr(<<"g", "a", "d", "g", "e", "t">>)

NoCategory == [t |-> "unset", txt |-> <<>>]

\* not data
no_data(body) == body.t = "null" \/ (body.t = "obj" /\ DOMAIN body.fields = {})

\* data.get('category', 'supplement')
category_of(fields) == Get(fields, "category", Tag("supplement"))

\* a check that lets every category through
any_category(c) == TRUE

\* category not in ['supplement', 'device'], negated
known_category(c) == c \in {Tag("supplement"), Tag("device")}

\* the validator the try block runs
validate_inputs(c, fields) ==
    IF c = Tag("supplement") THEN validate_supplement_inputs(fields)
    ELSE validate_device_inputs(fields)

validator_name(c) ==
    IF c = Tag("supplement") THEN "validate_supplement_inputs"
    ELSE "validate_device_inputs"

\* the formula the try block runs
formula_frame(c, fields) ==
    IF c = Tag("supplement") THEN supplement_frame(fields) ELSE device_frame(fields)

formula_name(c) ==
    IF c = Tag("supplement") THEN "calculate_supplement_price"
    ELSE "calculate_device_price"

\* new_calc; the id is the row's position in the table
Calculation(id, c, inputs, res) ==
    [id |-> id, category |-> c, inputs |-> inputs, results |-> res]

\* db.session.add(new_calc)
session_add(added, c, inputs, res) ==
    Append(added, [category |-> c, inputs |-> inputs, results |-> res])

\* db.session.commit() when the flush succeeds: every added row is inserted
session_commit(table, added) ==
    table \o [i \in 1..Len(added) |->
                Calculation(Len(table) + i, added[i].category,
                            added[i].inputs, added[i].results)]

\* a rollback that keeps what was added
session_kept(added) == added

\* db.session.rollback()
session_rollback(added) == <<>>

Error(status, msg) == [status |-> status, body |-> NoBreakdown(msg)]

\* the try block up to the return of the formula, for an object body of a
\* known category
computed_frame(c, fields, v) ==
    [category |-> c, validated |-> v,
     frame |-> IF v = Passed THEN formula_frame(c, fields) ELSE NoFrame]

computed_results(w) ==
    w @@ [results |-> IF w.validated = Passed THEN Breakdown(w.frame)
                      ELSE NoBreakdown("none")]

computed_for(c, fields) ==
    computed_results(computed_frame(c, fields, validate_inputs(c, fields)))

\* the handler's locals when it stops computing
computed(body) ==
    CASE body.t # "obj" \/ no_data(body) ->
           [category |-> NoCategory, validated |-> Passed, frame |-> NoFrame,
            results |-> NoBreakdown("none")]
      [] ~known_category(category_of(body.fields)) ->
           [category |-> category_of(body.fields), validated |-> Passed,
            frame |-> NoFrame, results |-> NoBreakdown("none")]
      [] OTHER -> computed_for(category_of(body.fields), body.fields)

\* the request bodies sent
Bodies ==
    {JNull, JList, JObj(<<>>),
     JObj(supplement_scenario),
     JObj(supplement_scenario @@ [category |-> Tag("supplement"),
                                  productShape |-> Str("Gummies")]),
     JObj(device_scenario @@ neutral_device @@ [category |-> Tag("device")]),
     JObj(device_scenario),
     JObj(device_scenario @@ [category |-> Tag("Device")]),
     JObj(supplement_scenario @@ [category |-> Tag("gadget")]),
     JObj(supplement_scenario @@ [category |-> JNull]),
     JObj([supplement_scenario EXCEPT !.fxRate = JStr(<<"a", "b", "c">>)]),
     JObj([supplement_scenario EXCEPT !.purchasePrice = JStr(<<"n", "a", "n">>)]),
     JObj([device_scenario EXCEPT !.purchasePrice = Zero]
          @@ [category |-> Tag("device")]),
     JObj([device_scenario EXCEPT !.weightKg = HugeInt]
          @@ [category |-> Tag("device")])}

\* what the handler does to the session and the table, and what it
\* answers, w being its locals; commit_ok tells whether the flush succeeds
answered(w, fields, commit_ok, table, added) ==
    CASE w.category = NoCategory ->
           [calls |-> <<>>, calculations |-> table, session |-> added,
            response |-> Error(400, "No input data provided")]
      [] ~known_category(w.category) ->
           [calls |-> <<>>, calculations |-> table, session |-> added,
            response |-> Error(400, "Invalid category")]
      [] w.validated.st = "ValueError" ->
           [calls |-> <<validator_name(w.category)>>,
            calculations |-> table, session |-> added,
            response |-> Error(400, "Validation failed")]
      [] w.validated.st # "ok" ->
           [calls |-> <<validator_name(w.category), "rollback">>,
            calculations |-> table, session |-> session_rollback(added),
            response |-> Error(500, "Calculation failed")]
      [] w.results.st = "ValueError" ->
           [calls |-> <<validator_name(w.category), formula_name(w.category)>>,
            calculations |-> table, session |-> added,
            response |-> Error(400, "Validation failed")]
      [] w.results.st # "ok" ->
           [calls |-> <<validator_name(w.category), formula_name(w.category),
                        "rollback">>,
            calculations |-> table, session |-> session_rollback(added),
            response |-> Error(500, "Calculation failed")]
      [] commit_ok ->
           [calls |-> <<validator_name(w.category), formula_name(w.category),
                        "add", "commit">>,
            calculations |->
                session_commit(table,
                    session_add(added, w.category, fields, w.results)),
            session |-> <<>>,
            response |-> [status |-> 200, body |-> w.results]]
      [] OTHER ->
           [calls |-> <<validator_name(w.category), formula_name(w.category),
                        "add", "commit", "rollback">>,
            calculations |-> table,
            session |-> session_rollback(
                            session_add(added, w.category, fields, w.results)),
            response |-> Error(500, "Calculation failed")]

\* a body that is no object has no get: the exception leaves the handler
handle_calculate(body, w, commit_ok, table, added) ==
    IF body.t = "list"
    THEN [calls |-> <<>>, calculations |-> table, session |-> added,
          response |-> Error(500, "AttributeError")]
    ELSE answered(w, IF body.t = "obj" THEN body.fields ELSE <<>>,
                  commit_ok, table, added)

InitHandler ==
    /\ pc = "idle"
    /\ category = NoCategory
    /\ data = JNull
    /\ given = JNull
    /\ validated = Passed
    /\ frame = NoFrame
    /\ results = NoBreakdown("none")
    /\ calculations = <<>>
    /\ session = <<>>
    /\ response = NoResponse
    /\ calls = <<>>
    /\ before = <<>>
    /\ pending = <<>>

Respond(out) ==
    /\ calls' = out.calls
    /\ calculations' = out.calculations
    /\ session' = out.session
    /\ response' = out.response

\* one request, from its body to its response; w is computed(body)
HandleCalculate(body, w, commit_ok) ==
    /\ Len(calculations) < MaxRecords
    /\ pc' = "responded"
    /\ data' = body
    /\ given' = body
    /\ category' = w.category
    /\ validated' = w.validated
    /\ frame' = w.frame
    /\ results' = w.results
    /\ before' = calculations
    /\ pending' = session
    /\ Respond(handle_calculate(body, w, commit_ok, calculations, session))

Request(body, w) == \E commit_ok \in BOOLEAN : HandleCalculate(body, w, commit_ok)

\* x itself; comparing a value with itself makes TLC normalise every record
\* in it, so that a value held by several workers is never reordered in place
Evaluated(x) == IF x = x THEN x ELSE x

NextHandler ==
    \E body \in Evaluated(Bodies) : Request(body, Evaluated(computed(body)))

SpecHandler == InitHandler /\ [][NextHandler]_vars

(***************************************************************************)
(* Properties.  An input is well formed when every required field is a     *)
(* decimal number or decimal string that is not negative and every         *)
(* categorical field, where present, is a string.                          *)
(***************************************************************************)
NonNegative(value) ==
    /\ value.t \in {"num", "str"}
    /\ ParseDecimal(value.txt).ok
    /\ ~ParseDecimal(value.txt).neg

Negative(value) ==
    /\ value.t \in {"num", "str"}
    /\ ParseDecimal(value.txt).ok
    /\ ParseDecimal(value.txt).neg
    /\ ~FIsZero(DecimalValue(ParseDecimal(value.txt)))

required_of(c) ==
    IF c = "supplement" THEN supplement_required_fields ELSE device_required_fields

categorical_of(c) ==
    IF c = "supplement" THEN supplement_categorical ELSE device_categorical

WellFormed(c, d) ==
    /\ \A f \in Range(required_of(c)) : f \in DOMAIN d /\ NonNegative(d[f])
    /\ \A f \in categorical_of(c) : f \in DOMAIN d => d[f].t = "str"

Returned_ok == pc = "returned" /\ results.st = "ok"

FinalPrice == FFromBig(results.finalPrice.neg, results.finalPrice.n)

\* C1: for every well-formed input the validator accepts, the formula returns
\* a breakdown and raises nothing, the margin division included.
C1_NoException ==
    pc = "returned" /\ WellFormed(category, data) => results.st = "ok"

\* C2: the breakdown a formula returns has finalPrice a multiple of 50 and
\* finalPrice at least the emitted totalCost.
C2_MultipleOf50 ==
    Returned_ok =>
        /\ BDivMod(results.finalPrice.n, <<50>>).r = <<>>
        /\ ~results.finalPrice.neg
        /\ ~FLt(FinalPrice, results.totalCost)

C2_Witness ==
    /\ Returned_ok
    /\ category = "supplement"
    /\ data = supplement_scenario @@ neutral_supplement
    /\ results.finalPrice.n = <<1600>>

\* C3: finalPrice is the smallest multiple of 50 that is at least the
\* unrounded totalCost * (1 + margin_percent) the formula computed, with
\* margin_percent 0.37 for supplements and 0.15 for devices.
C3_SmallestStep ==
    Returned_ok =>
        /\ frame.margin_percent
             = IF category = "supplement" THEN Lit(<<"0", ".", "3", "7">>)
               ELSE Lit(<<"0", ".", "1", "5">>)
        /\ frame.final_price_raw
             = FMul(frame.total_cost, FAdd(FFromSmall(1), frame.margin_percent))
        /\ ~FLt(FinalPrice, frame.final_price_raw)
        /\ FLt(FSub(FinalPrice, FFromSmall(50)), frame.final_price_raw)

C3_Witness ==
    /\ Returned_ok
    /\ category = "device"
    /\ results.finalPrice.n = BFromSmall(74750)
    /\ frame.final_price_raw = FFromSmall(74750)

\* what a required field's value is, by the look of it
NotNumber(value) ==
    \/ value.t \in {"null", "list"}
    \/ /\ value.t = "str"
       /\ ~ParseDecimal(value.txt).ok
       /\ Unsigned(value.txt) \notin {<<"i", "n", "f">>, <<"n", "a", "n">>}

Offending(d, f) == f \notin DOMAIN d \/ NotNumber(d[f]) \/ Negative(d[f])

Classified(d, f) == Offending(d, f) \/ NonNegative(d[f])

FirstOffending(d, fields) ==
    fields[CHOOSE i \in 1..Len(fields) :
             /\ Offending(d, fields[i])
             /\ \A j \in 1..(i - 1) : ~Offending(d, fields[j])]

\* C4: a validator raises ValueError naming the first required field that
\* is absent, not a number or negative, passes when every required field is
\* a number or numeric string >= 0, and leaves the input mapping as it was.
C4_Validator ==
    pc = "validated"
    /\ (\A f \in Range(required_of(category)) : Classified(data, f)) =>
        /\ data = given
        /\ IF \E f \in Range(required_of(category)) : Offending(data, f)
           THEN /\ validated.st = "ValueError"
                /\ validated.field = FirstOffending(data, required_of(category))
           ELSE validated = Passed

IsZeroDose(d) == NonNegative(d["dailyDose"]) /\ FIsZero(py_float(d["dailyDose"]).f)

WithSupply(d, count, dose) ==
    [d EXCEPT !["count"] = JNum(Chars(count)), !["dailyDose"] = JNum(Chars(dose))]

\* C5: with dailyDose = 0 the supplement formula raises nothing and uses 30
\* days of supply: its breakdown is that of the same input with a count and
\* a dose that give exactly 30 days, and the dosage adjustment is 0.
C5_ZeroDose ==
    pc = "returned" /\ category = "supplement"
    /\ WellFormed(category, data) /\ IsZeroDose(data) =>
        /\ results.st = "ok"
        /\ frame.days_supply = FFromSmall(30)
        /\ frame.dosage_adj = FZero
        /\ results = calculate_supplement_price(WithSupply(data, 30, 1))
        /\ results = calculate_supplement_price(WithSupply(data, 60, 2))

C5_Witness ==
    /\ pc = "returned" /\ category = "supplement"
    /\ data["dailyDose"] = Zero
    /\ data["count"] = JNum(<<"9", "0">>)
    /\ data["purchasePrice"] = JNum(<<"1", "0">>)
    /\ results.st = "ok"
    /\ frame.days_supply = FFromSmall(30)

table_of(f) ==
    CASE f = "isMaleSupport" -> "maleSupport"
      [] f = "importFrom" -> "importOrigin"
      [] OTHER -> f

neutral_of(f) == neutral_supplement[f]

Unlisted(d, f) ==
    /\ f \in DOMAIN d
    /\ d[f].t # "list"
    /\ ~(d[f].t = "str" /\ d[f].txt \in DOMAIN MULTIPLIERS[table_of(f)])

calculate_price(c, d) ==
    IF c = "supplement" THEN calculate_supplement_price(d)
    ELSE calculate_device_price(d)

C8_Scenarios ==
    /\ pc = "returned" /\ category = "supplement"
       /\ data = supplement_scenario @@ neutral_supplement =>
           /\ results.st = "ok"
           /\ results.totalCost = FFromSmall(1147)
           /\ results.finalPrice = Signed(FALSE, BFromSmall(1600))
           /\ results.profit = FFromSmall(453)
           /\ results.margin = Lit(<<"2", "8", ".", "3">>)
    /\ pc = "returned" /\ category = "device"
       /\ data = device_scenario @@ neutral_device =>
           /\ results.st = "ok"
           /\ results.baseCost = FFromSmall(5000)
           /\ results.totalCost = FFromSmall(65000)
           /\ results.finalPrice = Signed(FALSE, BFromSmall(74750))
           /\ results.profit = FFromSmall(9750)
           /\ results.margin = Lit(<<"1", "3", ".", "0">>)

C8_Witness ==
    /\ pc = "returned" /\ category = "device"
    /\ data = device_scenario @@ neutral_device
    /\ results.st = "ok"
    /\ frame.dim_factor = FFromSmall(13)

\* C9: the emitted profit is the emitted finalPrice minus the emitted
\* totalCost.
C9_ProfitOfEmitted ==
    Returned_ok => results.profit = FSub(FinalPrice, results.totalCost)

\* C10: the emitted margin is the emitted profit over the emitted finalPrice,
\* times 100, rounded to 1 decimal.
C10_MarginOfEmitted ==
    Returned_ok =>
        results.margin
          = py_round(FMul(FDiv(results.profit, FinalPrice), FFromSmall(100)), 1)

UnknownCategory(c) ==
    /\ c # NoCategory
    /\ ~(c.t = "str"
         /\ c.txt \in {<<"s", "u", "p", "p", "l", "e", "m", "e", "n", "t">>,
                       <<"d", "e", "v", "i", "c", "e">>})

\* C7: a request whose category is neither "supplement" nor "device" is
\* answered with an error before any validator or formula runs, and nothing
\* is added to the ledger or left in the session for it.
C7_UnknownCategoryRejected ==
    pc = "responded" /\ UnknownCategory(category) =>
        /\ response.status = 400
        /\ calls = <<>>
        /\ calculations = before
        /\ session = pending

C7_Witness ==
    /\ pc = "responded"
    /\ category = Tag("gadget")
    /\ response.status = 400
    /\ calls = <<>>
    /\ Len(calculations) = 1

Accepted(c, v, r) == ~UnknownCategory(c) /\ c # NoCategory /\ v = Passed /\ r.st = "ok"

Last(seq) == IF seq = <<>> THEN "" ELSE seq[Len(seq)]

\* C11: the ledger gains exactly one record, holding the request's category,
\* inputs and breakdown and added after the formula returned, for a request
\* that passes the category check, validation and the formula and whose
\* commit succeeds; any other request leaves the ledger as it was; and no
\* request leaves a record pending in the session.
C11_Ledger ==
    pc = "responded" =>
        /\ session = <<>>
        /\ response.status = 200 <=>
               Accepted(category, validated, results) /\ Last(calls) = "commit"
        /\ Accepted(category, validated, results) =>
               Last(calls) \in {"commit", "rollback"}
        /\ IF response.status = 200
           THEN /\ calculations
                     = Append(before,
                              [id |-> Len(before) + 1, category |-> category,
                               inputs |-> data.fields, results |-> results])
                /\ response.body = results
                /\ SubSeq(calls, Len(calls) - 2, Len(calls))
                     \in {<<"calculate_supplement_price", "add", "commit">>,
                          <<"calculate_device_price", "add", "commit">>}
           ELSE calculations = before

C11_Witness ==
    /\ pc = "responded"
    /\ Len(calculations) = 2
    /\ calculations[1].category = Tag("supplement")
    /\ calculations[2].category = Tag("device")
    /\ response.status = 500
    /\ Last(calls) = "rollback"
    /\ results.st = "ok"
    /\ session = <<>>

MonthOrLess(d) ==
    \/ ~FGt(py_float(d["dailyDose"]).f, FZero)
    \/ ~FGt(py_float(d["count"]).f,
            FMul(FFromSmall(30), py_float(d["dailyDose"]).f))

\* C12: in the supplement formula doseFactor lies in (0, 3], the dosage
\* adjustment 50 * (3 - doseFactor) lies in [0, 150) and is 0 exactly when
\* the supply is at most one month, and totalCost is never below
\* adjustedCost nor below 380.
C12_DoseFactor ==
    Returned_ok /\ category = "supplement" =>
        /\ FGt(frame.dose_factor, FZero)
        /\ ~FGt(frame.dose_factor, FFromSmall(3))
        /\ frame.dosage_adj
             = FMul(FFromSmall(50), FSub(FFromSmall(3), frame.dose_factor))
        /\ ~FLt(frame.dosage_adj, FZero)
        /\ FLt(frame.dosage_adj, FFromSmall(150))
        /\ frame.dosage_adj = FZero <=> MonthOrLess(data)
        /\ ~FLt(frame.total_cost, frame.adjusted_cost)
        /\ ~FLt(frame.total_cost, FFromSmall(380))

====
